---- MODULE Spec2Model ----
(***************************************************************************)
(* Smartsheet workspace deletion: the deletion predicate, the per-row      *)
(* deletion workflow (service.py and the older app.py), and the OAuth      *)
(* token manager (app_aws_oauth.py, app_oauth.py, oauth_handler.py).       *)
(***************************************************************************)
EXTENDS Integers, Sequences, FiniteSets, TLC

VARIABLES
    \* --- deletion predicate, called as a pure function ---
    arg_em,          \* em_notification_date argument (a date string or None)
    arg_del,         \* deletion_date argument
    arg_today,       \* todays_date argument
    ret,             \* what should_workspace_be_deleted returned
    pc_pred,         \* "ready" | "returned"
    \* --- permalink matching, called as a pure function ---
    string_arg_a,    \* string_a argument of is_workspaces_substring
    string_arg_b,    \* string_b argument
    match_ret,       \* what is_workspaces_substring returned
    pc_match,        \* "ready" | "returned"
    \* --- deletion workflow ---
    variant,         \* "service" (service.py) | "app" (app.py)
    rows,            \* the intake sheet on the provider: sequence of rows
    ws_exists,       \* provider: which workspaces exist
    clock,           \* index of the current calendar day in Calendar
    todays_date,     \* the date string the running pass/row evaluates against
    pc,              \* "idle" | "rows" | "done" | "setup_error" |
                     \* "lambda_error" | "killed"
    idx,             \* index of the next row of the running pass
    passes,          \* number of passes started
    summary,         \* the summary dict of the running pass
    last,            \* what the last processed row did
    setup,           \* what the running pass did before its row loop
    \* --- token manager ---
    tvariant,        \* which get_smartsheet_client is running
    store,           \* the persisted credential
    identity_ok,     \* the OAuth client identity can be read
    run,             \* the running get_smartsheet_client call: its position,
                     \* its local variables and what it did so far
    issued,          \* number of token responses issued so far
    pairs,           \* the <<access, refresh>> pairs issued so far
    runs,            \* number of get_smartsheet_client calls started
    callers,         \* two get_smartsheet_client calls running at the same
                     \* time on one store: position and local variables
    \* --- content enumerator, called as a function ---
    world,           \* the workspace's content on the provider and how the
                     \* repository answers
    manifest,        \* what process_workspace_contents produced
    pc_enum,         \* "ready" | "returned" | "raised"
    \* --- repository listing calls, called as functions ---
    node,            \* the workspace or folder on the provider, in pages
    listing,         \* what get_workspace_children / get_folder_children did
    pc_list          \* "ready" | "returned" | "raised"

predVars == <<arg_em, arg_del, arg_today, ret, pc_pred,
              string_arg_a, string_arg_b, match_ret, pc_match>>
wfVars   == <<variant, rows, ws_exists, clock, todays_date, pc, idx, passes,
              summary, last, setup>>
tokVars  == <<tvariant, store, identity_ok, run, issued, pairs, runs, callers>>
enumVars == <<world, manifest, pc_enum, node, listing, pc_list>>
vars     == <<predVars, wfVars, tokVars, enumVars>>

-----------------------------------------------------------------------------
(* Date strings.  A cell value or todays_date is a "YYYY-MM-DD" string,     *)
(* modelled by its three numeric fields <<y, m, d>>; None is <<>>.  The     *)
(* same fields written without zero padding ("2025-3-1") are another        *)
(* string, <<y, m, d, 0>>, which strptime parses to the same date.          *)

None == <<>>

DateString(y, m, d) == <<y, m, d>>

Unpadded(y, m, d) == <<y, m, d, 0>>

IsLeap(y) == (y % 4 = 0) /\ ((y % 100 # 0) \/ (y % 400 = 0))

DaysInMonth(y, m) ==
    IF m \in {4, 6, 9, 11} THEN 30
    ELSE IF m = 2 THEN (IF IsLeap(y) THEN 29 ELSE 28)
    ELSE 31

\* datetime.strptime(s, '%Y-%m-%d'): "ok" with a date, "ValueError" for a
\* string that is no calendar date, "TypeError" for None.
strptime(s) ==
    IF s = None THEN "TypeError"
    ELSE IF /\ s[1] >= 1 /\ s[1] <= 9999
            /\ s[2] >= 1 /\ s[2] <= 12
            /\ s[3] >= 1 /\ s[3] <= DaysInMonth(s[1], s[2])
         THEN "ok"
         ELSE "ValueError"

DateGe(a, b) ==
    \/ a[1] > b[1]
    \/ (a[1] = b[1] /\ a[2] > b[2])
    \/ (a[1] = b[1] /\ a[2] = b[2] /\ a[3] >= b[3])

\* date.__le__ on two parsed dates
DateLe(a, b) ==
    \/ a[1] < b[1]
    \/ (a[1] = b[1] /\ a[2] < b[2])
    \/ (a[1] = b[1] /\ a[2] = b[2] /\ a[3] <= b[3])

\* The string-typed result of a Python bool
Bool(b) == IF b THEN "True" ELSE "False"

\* is_date_past_or_today raises (TypeError) when strptime is handed None;
\* the first strptime is tried first, and a ValueError there returns False
\* before the second string is looked at.
is_date_past_or_today_raises(date_string, today) ==
    \/ strptime(date_string) = "TypeError"
    \/ (strptime(date_string) = "ok" /\ strptime(today) = "TypeError")

is_date_past_or_today_strict(date_string, today) ==
    IF strptime(date_string) # "ok" \/ strptime(today) # "ok"
    THEN FALSE
    ELSE DateLe(date_string, today) /\ date_string # today

\* The value returned when it does not raise.
is_date_past_or_today(date_string, today) ==
    IF strptime(date_string) # "ok" \/ strptime(today) # "ok"
    THEN FALSE
    ELSE DateLe(date_string, today)

should_workspace_be_deleted_raises(em, del, today) ==
    is_date_past_or_today_raises(del, today)

should_workspace_be_deleted_no_em(em, del, today) ==
    is_date_past_or_today(del, today)

\* The value returned when it does not raise.
should_workspace_be_deleted(em, del, today) ==
    LET is_today_em_notification == (em = today)
        is_today_deletion_date == is_date_past_or_today(del, today)
        proceed_with_deletion == is_today_deletion_date /\ ~is_today_em_notification
    IN  proceed_with_deletion

-----------------------------------------------------------------------------
(* Strings of permalinks and URLs: sequences of symbols, where the symbol   *)
(* "workspaces/" stands for that literal text.                              *)

IsSubstring(a, b) ==
    \E k \in 0..(Len(b) - Len(a)) : SubSeq(b, k + 1, k + Len(a)) = a

\* re.search(r'(workspaces/.*)\*?', string_a): the leftmost 'workspaces/',
\* then the greedy .* runs to the end of the string, so group(1) is the rest
\* of string_a from there on.
is_workspaces_substring(string_a, string_b) ==
    LET hits == {k \in 1..Len(string_a) : string_a[k] = "workspaces/"}
    IN  IF hits = {} THEN FALSE
        ELSE LET first == CHOOSE k \in hits : \A j \in hits : k <= j
                 workspaces_substring == SubSeq(string_a, first, Len(string_a))
             IN  IsSubstring(workspaces_substring, string_b)

-----------------------------------------------------------------------------
(* The content enumerator: process_workspace_contents and                   *)
(* _process_children_recursive over the content of one workspace.           *)

\* The objects a workspace can hold, by id.  The repository hands children
\* over as sheets, then folders, then reports, then sights; the ids are
\* numbered in that order.
EnumSheets == {1, 2}
EnumFolders == {11, 12, 13}
EnumReports == {21}
EnumSights == {31}
EnumItems == EnumSheets \cup EnumFolders \cup EnumReports \cup EnumSights

InWorkspace == 0      \* parent of a direct child of the workspace
NotThere == -1        \* parent of an object that does not exist

\* child.permalink, in pieces
ItemPermalink(segment, id) ==
    <<"https://app.smartsheet.com/", segment, "/", ToString(id)>>

\* "word" in permalink
InPermalink(word, permalink) == \E i \in 1..Len(permalink) : permalink[i] = word

RECURSIVE SortedSeq(_)
SortedSeq(S) ==
    IF S = {} THEN <<>>
    ELSE LET m == CHOOSE x \in S : \A y \in S : x <= y
         IN  <<m>> \o SortedSeq(S \ {m})

\* all_children of get_workspace_children / get_folder_children for parent p
Children(w, p) == SortedSeq({i \in EnumItems : w.parent[i] = p})

EmptyManifest ==
    [sheets |-> <<>>, dashboards |-> <<>>, reports |-> <<>>, skipped |-> <<>>,
     folders |-> <<>>, fetched |-> <<>>, raised |-> FALSE,
     level |-> 0, depth |-> 0]

\* _process_children_recursive(children[k..], summary).  acc is the summary
\* dict, with the folders whose children were requested (fetched), whether
\* an exception is propagating (raised), how many folders the running call
\* is nested in (level) and the largest such number so far (depth).
RECURSIVE process_children_recursive(_, _, _, _)
process_children_recursive(w, children, k, acc) ==
    IF acc.raised \/ k > Len(children) THEN acc
    ELSE
    LET child == children[k]
        permalink == ItemPermalink(w.segment[child], child)
    IN  IF child \in w.dicts
        THEN process_children_recursive(w, children, k + 1,
                 [acc EXCEPT !.skipped = Append(@, child)])
        ELSE IF InPermalink("sheets", permalink)
        THEN process_children_recursive(w, children, k + 1,
                 [acc EXCEPT !.sheets = Append(@, child)])
        ELSE IF InPermalink("dashboards", permalink) \/ InPermalink("sights", permalink)
        THEN process_children_recursive(w, children, k + 1,
                 [acc EXCEPT !.dashboards = Append(@, child)])
        ELSE IF InPermalink("folders", permalink)
        THEN LET a1 == [acc EXCEPT !.folders = Append(@, child),
                                   !.fetched = Append(@, child)]
             IN  IF w.fail = child \/ w.returns = "list"
                 THEN [a1 EXCEPT !.raised = TRUE]
                 ELSE LET a2 == [a1 EXCEPT !.level = @ + 1,
                                           !.depth = IF a1.level + 1 > @
                                                     THEN a1.level + 1 ELSE @]
                          a3 == process_children_recursive(w, Children(w, child),
                                                           1, a2)
                      IN  process_children_recursive(w, children, k + 1,
                              [a3 EXCEPT !.level = IF a3.raised THEN @ ELSE @ - 1])
        ELSE process_children_recursive(w, children, k + 1, acc)

\* process_workspace_contents(workspace_id).  get_workspace_children raises
\* (w.fail = InWorkspace), or returns the list of children; reading .data of
\* a plain list raises too.
process_workspace_contents(w) ==
    IF w.fail = InWorkspace \/ w.returns = "list"
    THEN [EmptyManifest EXCEPT !.raised = TRUE]
    ELSE process_children_recursive(w, Children(w, InWorkspace), 1, EmptyManifest)

\* The path segment of an object's permalink when nothing else is chosen.
DefaultSegment(i) ==
    IF i \in EnumSheets THEN "sheets"
    ELSE IF i \in EnumFolders THEN "folders"
    ELSE IF i \in EnumReports THEN "reports"
    ELSE "dashboards"

EmptyWorld ==
    [parent |-> [i \in EnumItems |-> NotThere],
     segment |-> [i \in EnumItems |-> DefaultSegment(i)],
     dicts |-> {}, fail |-> NotThere, returns |-> "result"]

\* Folder trees: a folder's parent is the workspace or a folder of smaller
\* id, so every tree is finite and acyclic, chains of three included.
ParentMaps ==
    {f \in [EnumItems -> {NotThere, InWorkspace} \cup EnumFolders] :
        /\ f[11] \in {NotThere, InWorkspace}
        /\ f[12] \in {NotThere, InWorkspace, 11}
        /\ f[13] \in {NotThere, InWorkspace, 11, 12}
        /\ f[2] \in {NotThere, InWorkspace, 13}
        /\ f[21] \in {NotThere, InWorkspace, 12}
        /\ f[31] \in {NotThere, InWorkspace, 11}}

SegmentMaps ==
    {[i \in EnumItems |-> IF i \in EnumSights THEN sg ELSE DefaultSegment(i)] :
        sg \in {"dashboards", "sights"}}

\* How the repository answers: "list" is the plain list that
\* get_workspace_children and get_folder_children return, "result" an object
\* whose .data is that list.
EnumWorlds ==
    {[parent |-> p, segment |-> sg, dicts |-> d, fail |-> f, returns |-> r] :
        p \in ParentMaps, sg \in SegmentMaps, d \in {{}, EnumReports},
        f \in {NotThere, InWorkspace} \cup EnumFolders, r \in {"list", "result"}}

-----------------------------------------------------------------------------
(* The repository's listing calls: get_workspace_children and               *)
(* get_folder_children over a node whose children come in pages.            *)

MaxPages == 3         \* pages of one node

\* One page of the provider's answer: the children by type.
Page(sheets, folders, reports, sights) ==
    [sheets |-> sheets, folders |-> folders, reports |-> reports,
     sights |-> sights]

\* The pages a node can have; ids differ from page to page where the same
\* page content is not chosen twice.
PageContents ==
    { Page(<<1>>, <<11>>, <<21>>, <<31>>),
      Page(<<2>>, <<>>, <<>>, <<>>),
      Page(<<>>, <<12, 13>>, <<>>, <<>>),
      Page(<<>>, <<>>, <<>>, <<>>) }

\* A node: which call lists it, its pages, whether the responses carry a
\* total_pages field (its value is the number of pages), and the page whose
\* request fails (0: none).
PagedNodes ==
    UNION { [call : {"get_workspace_children", "get_folder_children"},
             pages : [1..n -> PageContents],
             has_total_pages : BOOLEAN,
             fail : 0..n] : n \in 1..MaxPages }

IdleNode ==
    [call |-> "none", pages |-> <<Page(<<>>, <<>>, <<>>, <<>>)>>,
     has_total_pages |-> FALSE, fail |-> 0]

EmptyListing == [requests |-> <<>>, all_children |-> <<>>, raised |-> FALSE]

last_page_one_early(page, total_pages) == page + 1 >= total_pages

\* if page >= total_pages: break
last_page(page, total_pages) == page >= total_pages

\* The while loop of get_workspace_children / get_folder_children from the
\* given page on: the page is requested, its sheets, folders, reports and
\* sights are appended, and the loop stops on the last page.
RECURSIVE get_children(_, _, _)
get_children(n, page, acc) ==
    LET a1 == [acc EXCEPT !.requests = Append(@, page)]
    IN  IF n.fail = page
        THEN [a1 EXCEPT !.raised = TRUE]
        ELSE LET response == n.pages[page]
                 a2 == [a1 EXCEPT !.all_children =
                           @ \o response.sheets \o response.folders
                             \o response.reports \o response.sights]
                 total_pages == IF n.has_total_pages THEN Len(n.pages) ELSE 1
             IN  IF last_page(page, total_pages) THEN a2
                 ELSE get_children(n, page + 1, a2)

InitEnumIdle ==
    /\ world = EmptyWorld /\ manifest = EmptyManifest /\ pc_enum = "off"
    /\ node = IdleNode /\ listing = EmptyListing /\ pc_list = "off"

-----------------------------------------------------------------------------
(* The provider's world for the deletion workflow.                          *)

NumRows == 2          \* rows of the intake sheet
MaxPasses == 2        \* processing passes of one behaviour

Workspaces == {1, 2}

\* Workspace permalinks.  The second one extends the first, so the first is
\* a substring of it.
Permalink(w) ==
    IF w = 1 THEN <<"https://", "workspaces/", "a">>
    ELSE <<"https://", "workspaces/", "a", "b">>

\* A folder URL that the workspace data CSV does not list.
UnlistedUrl == <<"https://", "workspaces/", "z">>

\* What each workspace holds: the first one a folder with a folder with a
\* sheet in it, the second one nothing.
WorkspaceContent(w) ==
    [EmptyWorld EXCEPT !.parent =
        [i \in EnumItems |->
            IF w # 1 THEN NotThere
            ELSE IF i = 11 THEN InWorkspace
            ELSE IF i = 12 THEN 11
            ELSE IF i = 1 THEN 12
            ELSE NotThere]]

\* workspace_contents['folders'] when the enumeration returns.
ManifestFolders(w) == process_workspace_contents(WorkspaceContent(w)).folders

\* The calendar days the clock runs through, as strftime('%Y-%m-%d') prints
\* them.
Calendar == << DateString(2025, 2, 28), DateString(2025, 3, 1), DateString(2025, 3, 2) >>

\* A row that has no cell at all in the column.
Absent == <<0>>

FolderUrls == {None, UnlistedUrl} \cup {Permalink(w) : w \in Workspaces}
RowDeletionDates == {Calendar[1], Calendar[2], None, Absent}
RowEmDates == {Calendar[2]}

IntakeRow == [folder_url : FolderUrls,
              deletion_date : RowDeletionDates,
              em_notification_date : RowEmDates,
              deletion_status : {""}]

EmptySummary == [processed_rows |-> 0, successful_deletions |-> 0,
                 skipped |-> 0, errors |-> <<>>]

NoRow == [row |-> 0, path |-> "none", calls |-> <<>>, today |-> None,
          status_before |-> "", ws_gone |-> FALSE,
          err |-> 0, skip |-> 0, succ |-> 0, proc |-> 0]

\* Before the row loop: whether the caller holds a client session, and the
\* provider calls made to fetch the sheet.
NoSetup == [client |-> 1, calls |-> <<>>]

Call(op, target) == [op |-> op, target |-> target]

DeletionOps == {"delete_folder", "delete_workspace"}

\* What processing one row did: the path taken, the provider calls issued in
\* order, whether the status cell was written, which workspace was deleted
\* (0: none) and the summary increments.
RowResult(path, cs, mark, del_ws, proc, succ, skip, err) ==
    [path |-> path, calls |-> cs, mark |-> mark, del_ws |-> del_ws,
     proc |-> proc, succ |-> succ, skip |-> skip, err |-> err]

\* The outer "except Exception" of the service loop body: one errors entry,
\* one skip (processed_rows was already incremented).
SvcException(path, cs, del_ws) == RowResult(path, cs, FALSE, del_ws, 1, 0, 1, 1)

\* get_workspace_id_from_csv(folder_url): the id the workspace data CSV lists
\* for the URL, None (0) when it lists none.
get_workspace_id_from_csv(folder_url) ==
    IF \E w \in Workspaces : Permalink(w) = folder_url
    THEN CHOOSE w \in Workspaces : Permalink(w) = folder_url
    ELSE 0

\* repository.get_workspace(workspace_id): the workspace's metadata, None (0)
\* when the provider no longer has the workspace.
get_workspace(workspace_id, exists) ==
    IF exists[workspace_id] THEN workspace_id ELSE 0

\* repository.delete_folder(folder_id): one folder deletion call.
delete_folder(folder_id) == Call("delete_folder", folder_id)

after_delete_workspace_always_update(deletion_success) == "update_cell"

\* What follows delete_workspace: the status cell is updated when it
\* reported success, the row is left when it returned False.
after_delete_workspace(deletion_success) ==
    IF deletion_success THEN "update_cell" ELSE "continue"

\* delete_folder for the folders fs[k..] in manifest order, then the rest.
RECURSIVE SvcDeleteFolders(_, _, _, _)
SvcDeleteFolders(w, fs, k, cs) ==
    IF k > Len(fs)
    THEN \* delete_workspace, then update_cell
         LET c1 == Append(cs, Call("delete_workspace", w))
             c2 == Append(c1, Call("update_cell", 0))
         IN  { IF after_delete_workspace(FALSE) = "continue"
               THEN RowResult("delete_returned_false", c1, FALSE, 0, 1, 0, 1, 1)
               ELSE RowResult("delete_returned_false", c2, TRUE, 0, 1, 1, 0, 0),
               RowResult("delete_raised", c1, FALSE, 0, 1, 0, 1, 1),
               RowResult("deleted_and_marked", c2, TRUE, w, 1, 1, 0, 0),
               RowResult("deleted_update_raised", c2, FALSE, w, 1, 1, 0, 0) }
    ELSE LET c1 == Append(cs, delete_folder(fs[k]))
         IN  { SvcException("delete_folder_raised", c1, 0) }
             \cup SvcDeleteFolders(w, fs, k + 1, c1)

\* The body of the row loop of process_deletion_workflow.
ServiceRowResults(r, today, exists) ==
    IF r.folder_url = None
    THEN { RowResult("missing_folder_url", <<>>, FALSE, 0, 1, 0, 1, 0) }
    ELSE IF r.deletion_status # ""
    THEN { RowResult("already_deleted", <<>>, FALSE, 0, 1, 0, 1, 0) }
    ELSE LET workspace_id == get_workspace_id_from_csv(r.folder_url)
         IN
         IF workspace_id = 0
         THEN { RowResult("not_in_csv", <<>>, FALSE, 0, 1, 0, 1, 0) }
         ELSE
         { SvcException("get_workspace_raised", <<Call("get_workspace", workspace_id)>>, 0) }
         \cup
         ( IF get_workspace(workspace_id, exists) = 0
           THEN \* workspace metadata not found: assume already deleted
                LET cs == <<Call("get_workspace", workspace_id),
                            Call("update_cell", 0)>>
                IN  { RowResult("healed", cs, TRUE, 0, 1, 1, 1, 0),
                      RowResult("heal_update_raised", cs, FALSE, 0, 1, 0, 1, 0) }
           ELSE IF r.deletion_date = Absent
           THEN { RowResult("missing_dates",
                            <<Call("get_workspace", workspace_id)>>,
                            FALSE, 0, 1, 0, 1, 0) }
           ELSE IF should_workspace_be_deleted_raises(r.em_notification_date,
                                                      r.deletion_date, today)
           THEN { SvcException("predicate_raised",
                               <<Call("get_workspace", workspace_id)>>, 0) }
           ELSE IF ~should_workspace_be_deleted(r.em_notification_date,
                                                r.deletion_date, today)
           THEN { RowResult("criteria_not_met",
                            <<Call("get_workspace", workspace_id)>>,
                            FALSE, 0, 1, 0, 1, 0) }
           ELSE LET cs == <<Call("get_workspace", workspace_id),
                            Call("get_workspace_children", workspace_id)>>
                IN  { SvcException("enumeration_raised", cs, 0) }
                    \cup SvcDeleteFolders(workspace_id,
                                          ManifestFolders(workspace_id), 1, cs) )

\* The "except Exception" around process_row in process_workspace_deletions:
\* skipped and errors grow, processed_rows does not.
AppException(path, cs, del_ws) == RowResult(path, cs, FALSE, del_ws, 0, 0, 1, 1)

\* return_workspace_id: the first listed workspace whose permalink contains
\* the 'workspaces/...' part of the row's URL; 0 when none does.
return_workspace_id(permalink, exists) ==
    LET found == {w \in Workspaces :
                    exists[w] /\ is_workspaces_substring(permalink, Permalink(w))}
    IN  IF found = {} THEN 0
        ELSE CHOOSE w \in found : \A v \in found : w <= v

\* process_row of app.py, as called by process_workspace_deletions.
AppRowResults(r, today, exists) ==
    IF r.em_notification_date = None \/ r.deletion_date \in {None, Absent}
    THEN { AppException("key_error", <<>>, 0) }
    ELSE IF should_workspace_be_deleted_raises(r.em_notification_date,
                                               r.deletion_date, today)
    THEN { AppException("predicate_raised", <<>>, 0) }
    ELSE IF ~should_workspace_be_deleted(r.em_notification_date,
                                         r.deletion_date, today)
    THEN { RowResult("criteria_not_met", <<>>, FALSE, 0, 1, 0, 0, 0) }
    ELSE IF r.folder_url = None
    THEN { AppException("key_error", <<>>, 0) }
    ELSE LET c0 == <<Call("list_workspaces", 0)>>
             workspace_to_delete == return_workspace_id(r.folder_url, exists)
         IN  { AppException("list_workspaces_raised", c0, 0) }
             \cup
             ( IF workspace_to_delete = 0
               THEN { RowResult("workspace_not_found", c0, FALSE, 0, 1, 0, 0, 0) }
               ELSE LET c1 == Append(c0, Call("delete_workspace", workspace_to_delete))
                        c2 == Append(c1, Call("update_cell", 0))
                    IN  { AppException("delete_raised", c1, 0),
                          IF after_delete_workspace(FALSE) = "continue"
                          THEN RowResult("delete_returned_false", c1, FALSE,
                                         0, 1, 0, 0, 0)
                          ELSE RowResult("delete_returned_false", c2, TRUE,
                                         0, 1, 0, 0, 0),
                          RowResult("deleted_and_marked", c2, TRUE,
                                    workspace_to_delete, 1, 0, 0, 0),
                          RowResult("deleted_update_failed", c2, FALSE,
                                    workspace_to_delete, 1, 0, 0, 0) } )

\* get_pacific_today_date(): today's date string, or None when the timezone
\* lookup fails.
get_pacific_today_date == {Calendar[clock], None}

-----------------------------------------------------------------------------
(* The deletion workflow as a state machine.                                *)

InitMatchIdle ==
    /\ string_arg_a = <<>> /\ string_arg_b = <<>>
    /\ match_ret = "none" /\ pc_match = "off"

InitPredIdle ==
    /\ arg_em = None /\ arg_del = None /\ arg_today = None
    /\ ret = "none" /\ pc_pred = "off"
    /\ InitMatchIdle

InitWorkflowIdle ==
    /\ variant = "none" /\ rows = <<>> /\ ws_exists = [w \in Workspaces |-> TRUE]
    /\ clock = 1 /\ todays_date = None /\ pc = "off" /\ idx = 0 /\ passes = 0
    /\ summary = EmptySummary /\ last = NoRow /\ setup = NoSetup

\* A get_smartsheet_client call that has not loaded anything yet.
\* Tokens are numbered by the token response that issued them; 0 is None.
NewRun(st) ==
    [tpc |-> "start", phase |-> "none", store0 |-> st, readable |-> FALSE,
     loaded |-> <<0, 0>>,
     valid |-> "none", validated |-> "none", access |-> 0, refresh |-> 0, session |-> 0,
     refresh_invoked |-> <<>>, refresh_calls |-> <<>>, diagnostics |-> <<>>,
     failure |-> "none", exchanged |-> FALSE, writes |-> 0]

EmptyStore == [access |-> 0, refresh |-> 0, araw |-> FALSE, rraw |-> FALSE]

\* The two invocations that may run at the same time.
Callers == {"A", "B"}

\* A call that is not running: what it read, the tokens of its refresh
\* response, and how its save ended.
IdleCaller ==
    [rpc |-> "off", loaded |-> <<0, 0>>, access |-> 0, refresh |-> 0,
     saved |-> "none"]

InitTokenIdle ==
    /\ tvariant = "none" /\ store = EmptyStore /\ identity_ok = TRUE
    /\ run = [NewRun(EmptyStore) EXCEPT !.tpc = "off"]
    /\ issued = 0 /\ pairs = {} /\ runs = 0
    /\ callers = [c \in Callers |-> IdleCaller]

InitWorkflow ==
    /\ variant \in {"service", "app"}
    /\ rows \in [1..NumRows -> IntakeRow]
    /\ ws_exists = [w \in Workspaces |-> TRUE]
    /\ clock = 1
    /\ todays_date = None
    /\ pc = "idle"
    /\ idx = 0
    /\ passes = 0
    /\ summary = EmptySummary
    /\ last = NoRow
    /\ setup = NoSetup
    /\ InitPredIdle
    /\ InitTokenIdle
    /\ InitEnumIdle

\* Midnight passes in the configured timezone.
Tick ==
    /\ pc \in {"idle", "rows", "done", "setup_error", "lambda_error", "killed"}
    /\ clock < Len(Calendar)
    /\ clock' = clock + 1
    /\ UNCHANGED <<variant, rows, ws_exists, todays_date, pc, idx, passes,
                   summary, last, setup>>
    /\ UNCHANGED <<predVars, tokVars, enumVars>>

\* No pass is running: the next invocation can start.
BetweenPasses == pc \in {"idle", "done", "setup_error", "lambda_error", "killed"}

\* The provider calls that fetch the sheet: get_sheet in the service,
\* get_columns and then get_sheet in app.py.
SheetFetch ==
    IF variant = "service" THEN <<Call("get_sheet", 0)>>
    ELSE <<Call("get_columns", 0), Call("get_sheet", 0)>>

lambda_after_client_always_runs(client) == "process_workspace_deletions"

\* lambda_handler after get_smartsheet_client: without a client an error
\* response is returned at once, with one the workflow is run.
lambda_after_client(client) ==
    IF client = 0 THEN "error_response" ELSE "process_workspace_deletions"

\* The client the caller of a pass holds: lambda_handler, which calls
\* process_workspace_deletions, has what get_smartsheet_client returned
\* (0: None); the service is constructed over a repository with a client.
Clients == IF variant = "app" THEN {0, 1} ELSE {1}

\* process_deletion_workflow / process_workspace_deletions up to the row
\* loop: the summary is created and the sheet fetched; the service computes
\* today's date once, here.
StartPass ==
    /\ BetweenPasses
    /\ passes < MaxPasses
    /\ passes' = passes + 1
    /\ summary' = EmptySummary
    /\ last' = NoRow
    /\ idx' = 1
    /\ \E client \in Clients :
          /\ lambda_after_client(client) = "process_workspace_deletions"
          /\ setup' = [client |-> client, calls |-> SheetFetch]
    /\ \/ /\ variant = "service"
          /\ \E t \in get_pacific_today_date :
                /\ todays_date' = t
                /\ pc' = IF t = None THEN "setup_error" ELSE "rows"
       \/ /\ variant = "app"
          /\ todays_date' = None
          /\ pc' = "rows"
    /\ UNCHANGED <<variant, rows, ws_exists, clock>>
    /\ UNCHANGED <<predVars, tokVars, enumVars>>

\* The sheet (or, in app.py, its columns) cannot be fetched: an error object
\* is returned instead of a summary.
SetupFails ==
    /\ BetweenPasses
    /\ passes < MaxPasses
    /\ passes' = passes + 1
    /\ summary' = EmptySummary
    /\ last' = NoRow
    /\ idx' = 1
    /\ todays_date' = None
    /\ pc' = "setup_error"
    /\ \E client \in Clients :
          /\ lambda_after_client(client) = "process_workspace_deletions"
          /\ \E n \in 1..Len(SheetFetch) :
                setup' = [client |-> client, calls |-> SubSeq(SheetFetch, 1, n)]
    /\ UNCHANGED <<variant, rows, ws_exists, clock>>
    /\ UNCHANGED <<predVars, tokVars, enumVars>>

\* lambda_handler when get_smartsheet_client returned None: the error
\* response is returned.
LambdaNoClient ==
    /\ BetweenPasses
    /\ passes < MaxPasses
    /\ \E client \in Clients :
          /\ lambda_after_client(client) = "error_response"
          /\ setup' = [client |-> client, calls |-> <<>>]
    /\ passes' = passes + 1
    /\ summary' = EmptySummary
    /\ last' = NoRow
    /\ idx' = 1
    /\ todays_date' = None
    /\ pc' = "lambda_error"
    /\ UNCHANGED <<variant, rows, ws_exists, clock>>
    /\ UNCHANGED <<predVars, tokVars, enumVars>>

\* The row's URL is the permalink of a workspace that no longer exists.
WorkspaceGone(folder_url, exists) ==
    \E w \in Workspaces : Permalink(w) = folder_url /\ ~exists[w]

next_row_stops_on_error(i, res) == IF res.err = 1 THEN NumRows + 1 ELSE i + 1

\* for i, row in enumerate(rows): the body is one try block whose handler
\* records the error, so the loop goes on with the next row whatever the
\* row's outcome was.
next_row(i, res) == i + 1

ApplyRow(i, res, today) ==
    /\ rows' = [rows EXCEPT ![i].deletion_status =
                    IF res.mark THEN "Deleted" ELSE @]
    /\ ws_exists' = [w \in Workspaces |->
                        IF w = res.del_ws THEN FALSE ELSE ws_exists[w]]
    /\ summary' = [processed_rows |-> summary.processed_rows + res.proc,
                   successful_deletions |-> summary.successful_deletions + res.succ,
                   skipped |-> summary.skipped + res.skip,
                   errors |-> IF res.err = 1
                              THEN Append(summary.errors, i - 1)
                              ELSE summary.errors]
    /\ last' = [row |-> i, path |-> res.path, calls |-> res.calls,
                today |-> today, status_before |-> rows[i].deletion_status,
                ws_gone |-> WorkspaceGone(rows[i].folder_url, ws_exists),
                err |-> res.err, skip |-> res.skip, succ |-> res.succ,
                proc |-> res.proc]
    /\ idx' = next_row(i, res)

\* One iteration of the row loop.
ProcessRow ==
    /\ pc = "rows"
    /\ idx <= Len(rows)
    /\ \/ /\ variant = "service"
          /\ \E res \in ServiceRowResults(rows[idx], todays_date, ws_exists) :
                ApplyRow(idx, res, todays_date)
          /\ UNCHANGED todays_date
       \/ /\ variant = "app"
          /\ \E t \in get_pacific_today_date :
                /\ todays_date' = t
                /\ \E res \in AppRowResults(rows[idx], t, ws_exists) :
                      ApplyRow(idx, res, t)
    /\ UNCHANGED <<variant, clock, pc, passes, setup>>
    /\ UNCHANGED <<predVars, tokVars, enumVars>>

\* The process is killed while the row loop runs: between two rows, or in a
\* row after the workspace deletion and before the status update.  Nothing
\* is returned.
KillPass ==
    /\ pc = "rows"
    /\ pc' = "killed"
    /\ \/ UNCHANGED <<rows, ws_exists, todays_date, last>>
       \/ /\ idx <= Len(rows)
          /\ \E t \in (IF variant = "service" THEN {todays_date}
                       ELSE get_pacific_today_date) :
             \E res \in (IF variant = "service"
                         THEN ServiceRowResults(rows[idx], t, ws_exists)
                         ELSE AppRowResults(rows[idx], t, ws_exists)) :
                /\ res.del_ws # 0
                /\ todays_date' = t
                /\ ws_exists' = [ws_exists EXCEPT ![res.del_ws] = FALSE]
                /\ last' = [row |-> idx, path |-> "killed_after_delete",
                            calls |-> SubSeq(res.calls, 1, Len(res.calls) - 1),
                            today |-> t,
                            status_before |-> rows[idx].deletion_status,
                            ws_gone |-> WorkspaceGone(rows[idx].folder_url,
                                                      ws_exists),
                            err |-> 0, skip |-> 0, succ |-> 0, proc |-> 0]
          /\ UNCHANGED rows
    /\ UNCHANGED <<variant, clock, idx, passes, summary, setup>>
    /\ UNCHANGED <<predVars, tokVars, enumVars>>

\* The loop is over: the summary is returned.
FinishPass ==
    /\ pc = "rows"
    /\ idx > Len(rows)
    /\ pc' = "done"
    /\ UNCHANGED <<variant, rows, ws_exists, clock, todays_date, idx, passes,
                   summary, last, setup>>
    /\ UNCHANGED <<predVars, tokVars, enumVars>>

NextWorkflow ==
    \/ Tick \/ StartPass \/ SetupFails \/ LambdaNoClient
    \/ ProcessRow \/ KillPass \/ FinishPass

SpecWorkflow == InitWorkflow /\ [][NextWorkflow]_vars

-----------------------------------------------------------------------------
(* The token manager: get_smartsheet_client in its variants.                *)
(*   "aws"          src/app/app_aws_oauth.py  (one JSON secret)             *)
(*   "aws_root"     src/app_aws_oauth.py      (one JSON secret)             *)
(*   "local"        src/app/app_oauth.py      (token file)                  *)
(*   "handler_file" src/app/oauth_handler.py, token file                    *)
(*   "handler_aws"  src/app/oauth_handler.py, two secrets                   *)

MaxRuns == 2          \* get_smartsheet_client calls of one behaviour

TokenVariants == {"aws", "aws_root", "local", "handler_file", "handler_aws"}

IsAws(tv) == tv \in {"aws", "aws_root"}
IsHandler(tv) == tv \in {"handler_file", "handler_aws"}

\* What the token endpoint answers to a refresh_token grant.
RefreshFailures == {"http400_invalid_grant", "http400_other", "http400_unreadable",
                    "http_other", "http_no_response", "timeout",
                    "connection_error", "other_exception"}
RefreshSuccesses == {"ok", "ok_no_access", "ok_no_refresh"}

\* The tokens of token response number n of the given kind.
ResponseAccess(kind, n) == IF kind = "ok_no_access" THEN 0 ELSE n
ResponseRefresh(kind, n) == IF kind = "ok_no_refresh" THEN 0 ELSE n

classify_invalid_grant_as_expired(outcome) ==
    IF outcome \in {"http400_invalid_grant", "http400_other"} THEN "token_expired"
    ELSE IF outcome \in {"http_other", "http_no_response", "timeout"}
    THEN "network_error"
    ELSE "unknown"

\* The error_type refresh_tokens hands to emit_refresh_failure.
classify(outcome) ==
    IF outcome = "http400_invalid_grant" THEN "token_revoked"
    ELSE IF outcome = "http400_other" THEN "token_expired"
    ELSE IF outcome = "http400_unreadable" THEN "unknown"
    ELSE IF outcome \in {"http_other", "http_no_response", "timeout"}
    THEN "network_error"
    ELSE "unknown"

aws_after_load_refresh_first(access, refresh) ==
    IF refresh # 0 THEN "refresh"
    ELSE IF access # 0 THEN "return_access"
    ELSE "return_none"

\* app_aws_oauth.get_smartsheet_client after reading the secret.
aws_after_load(access, refresh) ==
    IF access # 0 THEN "return_access"
    ELSE IF refresh # 0 THEN "refresh"
    ELSE "return_none"

\* app_oauth.get_smartsheet_client after reading the token file.
local_after_load(access, refresh) ==
    IF refresh # 0 THEN "refresh" ELSE "authflow"

\* oauth_handler.get_smartsheet_client after load_tokens().
handler_after_load(access, refresh) ==
    IF access # 0 THEN "validate" ELSE "authflow"

\* What client.Users.get_current_user() does: it returns the user ("ok"),
\* returns an object whose to_dict() has a result dict with a statusCode
\* and/or an errorCode ("embedded"; 0: the key is absent), raises an API
\* error carrying error.status_code ("raised_api"), or raises anything else
\* ("raised_other").
CurrentUserOutcomes ==
    {[how |-> "ok", statusCode |-> 0, errorCode |-> 0],
     [how |-> "raised_other", statusCode |-> 0, errorCode |-> 0]}
    \cup [how : {"embedded"}, statusCode : {0, 401, 403, 404, 500},
          errorCode : {0, 1003, 4004}]
    \cup [how : {"raised_api"}, statusCode : {401, 403, 404, 429, 500},
          errorCode : {0}]

\* What the current-user call reported: an authentication error is an HTTP
\* status of 401 or 403, raised or embedded.
Reported(answer) ==
    IF answer.how = "ok" THEN "valid"
    ELSE IF answer.how \in {"embedded", "raised_api"}
            /\ answer.statusCode \in {401, 403}
    THEN "auth_error"
    ELSE IF answer.how = "embedded" /\ answer.statusCode = 0
            /\ answer.errorCode = 0
    THEN "valid"
    ELSE "non_auth_error"

validate_client_strict(answer) == answer.how = "ok"

\* validate_client(client): True or False.
validate_client(answer) ==
    IF answer.how = "ok" THEN TRUE
    ELSE IF answer.how = "embedded"
    THEN IF answer.errorCode # 0 \/ answer.statusCode # 0
         THEN LET status_code == IF answer.statusCode # 0
                                 THEN answer.statusCode ELSE answer.errorCode
              IN  status_code \notin {401, 403}
         ELSE TRUE
    ELSE IF answer.how = "raised_api"
    THEN answer.statusCode \notin {401, 403}
    ELSE TRUE

\* oauth_handler.get_smartsheet_client after validate_client(client).
handler_after_validate(answer, refresh) ==
    IF validate_client(answer) THEN "return_access"
    ELSE IF refresh # 0 THEN "refresh"
    ELSE "authflow"

InitToken ==
    /\ tvariant \in TokenVariants
    /\ store \in [access : {0, 1}, refresh : {0, 1}, araw : {FALSE}, rraw : {FALSE}]
    /\ identity_ok \in BOOLEAN
    /\ run = [NewRun(store) EXCEPT !.tpc = "idle"]
    /\ issued = 1
    /\ pairs = {<<store.access, store.refresh>>}
    /\ runs = 0
    /\ callers = [c \in Callers |-> IdleCaller]
    /\ InitPredIdle
    /\ InitWorkflowIdle
    /\ InitEnumIdle

\* json.loads on a secret that holds the bare token string raises.
load_tokens_from_aws_raises(st) ==
    (st.access # 0 /\ st.araw) \/ (st.refresh # 0 /\ st.rraw)

\* get_smartsheet_client starts: the persisted credential is read and the
\* first branch is taken.
LoadTokens ==
    /\ run.tpc \in {"idle", "returned", "raised"}
    /\ runs < MaxRuns
    /\ runs' = runs + 1
    /\ \E readable \in BOOLEAN :
         LET access == IF readable THEN store.access ELSE 0
             refresh == IF readable THEN store.refresh ELSE 0
             next == IF IsAws(tvariant) THEN aws_after_load(access, refresh)
                     ELSE IF tvariant = "local" THEN local_after_load(access, refresh)
                     ELSE handler_after_load(access, refresh)
             r0 == [NewRun(store) EXCEPT !.loaded = <<access, refresh>>,
                                         !.readable = readable]
         IN  IF tvariant = "handler_aws" /\ readable /\ load_tokens_from_aws_raises(store)
             THEN run' = [r0 EXCEPT !.tpc = "raised", !.loaded = <<0, 0>>]
             ELSE IF next = "return_access"
             THEN run' = [r0 EXCEPT !.tpc = "returned", !.session = access]
             ELSE IF next = "return_none"
             THEN run' = [r0 EXCEPT !.tpc = "returned"]
             ELSE IF next = "validate"
             THEN run' = [r0 EXCEPT !.tpc = "validate", !.session = access]
             ELSE IF next = "refresh"
             THEN run' = [r0 EXCEPT !.tpc = "refresh",
                                   !.session = IF tvariant = "local" THEN access ELSE 0]
             ELSE run' = [r0 EXCEPT !.tpc = "authflow",
                                   !.session = IF tvariant = "local" THEN access ELSE 0]
    /\ UNCHANGED <<tvariant, store, identity_ok, issued, pairs>>
    /\ UNCHANGED <<callers, predVars, wfVars, enumVars>>

\* oauth_handler: the stored access token is tried on the current-user call.
ValidateClient ==
    /\ run.tpc = "validate"
    /\ \E answer \in CurrentUserOutcomes :
         LET next == handler_after_validate(answer, run.loaded[2])
         IN  run' = [run EXCEPT !.valid = Reported(answer),
                                !.validated = Bool(validate_client(answer)),
                                !.tpc = IF next = "return_access" THEN "returned" ELSE next,
                                !.session = IF next = "return_access" THEN @ ELSE 0]
    /\ UNCHANGED <<tvariant, store, identity_ok, issued, pairs, runs>>
    /\ UNCHANGED <<callers, predVars, wfVars, enumVars>>

\* Where get_smartsheet_client goes when refresh_tokens raised.
AfterRefreshFailure(r) ==
    IF IsAws(tvariant) THEN [r EXCEPT !.tpc = "returned", !.session = 0]
    ELSE [r EXCEPT !.tpc = "authflow"]

\* refresh_tokens raises before any request when the client identity cannot
\* be read from the secret store.
RefreshWithoutIdentity ==
    /\ run.tpc = "refresh"
    /\ tvariant \in {"aws", "handler_aws"}
    /\ ~identity_ok
    /\ run' = AfterRefreshFailure(
                [run EXCEPT !.failure = "missing_identity",
                            !.refresh_invoked = Append(@, run.loaded[2])])
    /\ UNCHANGED <<tvariant, store, identity_ok, issued, pairs, runs>>
    /\ UNCHANGED <<callers, predVars, wfVars, enumVars>>

\* refresh_tokens posts the refresh token and the endpoint rejects it, or the
\* request fails.
RefreshFails ==
    /\ run.tpc = "refresh"
    /\ tvariant \in {"aws", "handler_aws"} => identity_ok
    /\ \E outcome \in RefreshFailures :
         run' = AfterRefreshFailure(
                  [run EXCEPT !.failure = outcome,
                              !.refresh_invoked = Append(@, run.loaded[2]),
                              !.refresh_calls = Append(@, run.loaded[2]),
                              !.diagnostics = IF IsAws(tvariant)
                                              THEN Append(@, classify(outcome))
                                              ELSE @])
    /\ UNCHANGED <<tvariant, store, identity_ok, issued, pairs, runs>>
    /\ UNCHANGED <<callers, predVars, wfVars, enumVars>>

\* refresh_tokens returns a token response.
RefreshSucceeds ==
    /\ run.tpc = "refresh"
    /\ identity_ok
    /\ \E kind \in RefreshSuccesses :
         LET n == issued + 1
             access == ResponseAccess(kind, n)
             refresh == ResponseRefresh(kind, n)
             r1 == [run EXCEPT !.refresh_invoked = Append(@, run.loaded[2]),
                               !.refresh_calls = Append(@, run.loaded[2]),
                               !.access = access, !.refresh = refresh,
                               !.phase = "refresh"]
         IN  /\ issued' = n
             /\ pairs' = pairs \cup {<<access, refresh>>}
             /\ run' = IF tvariant = "local"
                       THEN [r1 EXCEPT !.tpc = "persist",
                                       !.session = IF access # 0 THEN access ELSE @]
                       ELSE IF access # 0
                       THEN [r1 EXCEPT !.tpc = "persist"]
                       ELSE IF IsAws(tvariant)
                       THEN [r1 EXCEPT !.tpc = "returned", !.session = 0]
                       ELSE [r1 EXCEPT !.tpc = "authflow"]
    /\ UNCHANGED <<tvariant, store, identity_ok, runs>>
    /\ UNCHANGED <<callers, predVars, wfVars, enumVars>>

\* save_token_secret: one put_secret_value (or create_secret) of the JSON
\* document holding both tokens; a failure is logged by the caller and the
\* client is returned all the same.
SaveTokenSecret ==
    /\ run.tpc = "persist"
    /\ IsAws(tvariant)
    /\ \E ok \in BOOLEAN :
         /\ store' = IF ok THEN [store EXCEPT !.access = run.access,
                                              !.refresh = run.refresh]
                     ELSE store
         /\ run' = [run EXCEPT !.tpc = "returned", !.session = run.access,
                               !.writes = IF ok THEN @ + 1 ELSE @]
    /\ UNCHANGED <<tvariant, identity_ok, issued, pairs, runs>>
    /\ UNCHANGED <<callers, predVars, wfVars, enumVars>>

\* save_tokens to the token file: open(..., 'w') and json.dump.  The write
\* succeeds, fails before the file is opened, or fails after the file was
\* truncated.
SaveTokensFile ==
    /\ run.tpc = "persist"
    /\ tvariant \in {"local", "handler_file"}
    /\ \E res \in {"ok", "unchanged", "truncated"} :
         /\ store' = IF res = "ok" THEN [store EXCEPT !.access = run.access,
                                                     !.refresh = run.refresh]
                     ELSE IF res = "truncated" THEN EmptyStore
                     ELSE store
         /\ LET r1 == [run EXCEPT !.writes = IF res = "ok" THEN @ + 1 ELSE @]
            IN  run' =
                  IF tvariant = "handler_file"
                  THEN [r1 EXCEPT !.tpc = "returned", !.session = run.access]
                  ELSE IF run.phase = "refresh"
                  THEN IF res = "ok" THEN [r1 EXCEPT !.tpc = "returned"]
                       ELSE [r1 EXCEPT !.tpc = "authflow"]
                  ELSE IF res = "ok" /\ run.access # 0
                  THEN [r1 EXCEPT !.tpc = "returned", !.session = run.access]
                  ELSE [r1 EXCEPT !.tpc = "returned", !.session = 0]
    /\ UNCHANGED <<tvariant, identity_ok, issued, pairs, runs>>
    /\ UNCHANGED <<callers, predVars, wfVars, enumVars>>

\* save_tokens_to_aws, first half: the access token secret is written.
PutAccessTokenSecret ==
    /\ run.tpc = "persist"
    /\ tvariant = "handler_aws"
    /\ \E ok \in BOOLEAN :
         IF ok
         THEN /\ store' = [store EXCEPT !.access = run.access, !.araw = TRUE]
              /\ run' = [run EXCEPT !.tpc = "persist_refresh", !.writes = @ + 1]
         ELSE /\ store' = store
              /\ run' = [run EXCEPT !.tpc = "returned", !.session = run.access]
    /\ UNCHANGED <<tvariant, identity_ok, issued, pairs, runs>>
    /\ UNCHANGED <<callers, predVars, wfVars, enumVars>>

\* save_tokens_to_aws, second half: the refresh token secret is written.  A
\* refresh token of None is refused by the client library with an exception
\* that save_tokens_to_aws does not catch.
PutRefreshTokenSecret ==
    /\ run.tpc = "persist_refresh"
    /\ IF run.refresh = 0
       THEN /\ store' = store
            /\ run' = IF run.phase = "refresh"
                      THEN [run EXCEPT !.tpc = "authflow"]
                      ELSE [run EXCEPT !.tpc = "returned", !.session = 0]
       ELSE \E ok \in BOOLEAN :
              /\ store' = IF ok THEN [store EXCEPT !.refresh = run.refresh,
                                                   !.rraw = TRUE]
                          ELSE store
              /\ run' = [run EXCEPT !.tpc = "returned", !.session = run.access,
                                    !.writes = IF ok THEN @ + 1 ELSE @]
    /\ UNCHANGED <<tvariant, identity_ok, issued, pairs, runs>>
    /\ UNCHANGED <<callers, predVars, wfVars, enumVars>>

\* The authorization flow ends without tokens: no code was provided, or the
\* code exchange failed.
AuthFlowFails ==
    /\ run.tpc = "authflow"
    /\ run' = [run EXCEPT !.tpc = "returned", !.session = 0]
    /\ UNCHANGED <<tvariant, store, identity_ok, issued, pairs, runs>>
    /\ UNCHANGED <<callers, predVars, wfVars, enumVars>>

\* The authorization flow cannot ask for a code (no terminal): the exception
\* leaves get_smartsheet_client.
AuthFlowRaises ==
    /\ run.tpc = "authflow"
    /\ IsHandler(tvariant)
    /\ run' = [run EXCEPT !.tpc = "raised", !.session = 0]
    /\ UNCHANGED <<tvariant, store, identity_ok, issued, pairs, runs>>
    /\ UNCHANGED <<callers, predVars, wfVars, enumVars>>

\* exchange_code_for_tokens returns a token response.
AuthFlowExchanges ==
    /\ run.tpc = "authflow"
    /\ identity_ok
    /\ \E kind \in RefreshSuccesses :
         LET n == issued + 1
             access == ResponseAccess(kind, n)
             refresh == ResponseRefresh(kind, n)
             r1 == [run EXCEPT !.access = access, !.refresh = refresh,
                               !.phase = "auth", !.exchanged = TRUE]
         IN  /\ issued' = n
             /\ pairs' = pairs \cup {<<access, refresh>>}
             /\ run' = IF tvariant = "local" \/ access # 0
                       THEN [r1 EXCEPT !.tpc = "persist"]
                       ELSE [r1 EXCEPT !.tpc = "returned", !.session = 0]
    /\ UNCHANGED <<tvariant, store, identity_ok, runs>>
    /\ UNCHANGED <<callers, predVars, wfVars, enumVars>>

NextToken ==
    \/ LoadTokens \/ ValidateClient
    \/ RefreshWithoutIdentity \/ RefreshFails \/ RefreshSucceeds
    \/ SaveTokenSecret \/ SaveTokensFile
    \/ PutAccessTokenSecret \/ PutRefreshTokenSecret
    \/ AuthFlowFails \/ AuthFlowRaises \/ AuthFlowExchanges

SpecToken == InitToken /\ [][NextToken]_vars

-----------------------------------------------------------------------------
(* Two get_smartsheet_client calls on one store.  Each call runs the code   *)
(* of the token manager; the steps of the two calls interleave at every     *)
(* read and write of the store and at every request to the token endpoint.  *)

InitRace ==
    /\ tvariant \in {"aws", "aws_root", "handler_aws"}
    /\ store \in [access : {0, 1}, refresh : {0, 1}, araw : {FALSE}, rraw : {FALSE}]
    /\ identity_ok \in BOOLEAN
    /\ run = [NewRun(store) EXCEPT !.tpc = "off"]
    /\ issued = 1
    /\ pairs = {<<store.access, store.refresh>>}
    /\ runs = 0
    /\ callers = [c \in Callers |-> [IdleCaller EXCEPT !.rpc = "start"]]
    /\ InitPredIdle
    /\ InitWorkflowIdle
    /\ InitEnumIdle

\* The call reads the stored credential and takes its first branch; with
\* oauth_handler the stored access token is validated first.  Only the
\* refresh branch goes on here.
CallerLoads(c) ==
    /\ callers[c].rpc = "start"
    /\ LET access == store.access
           refresh == store.refresh
       IN  IF tvariant = "handler_aws" /\ load_tokens_from_aws_raises(store)
           THEN callers' = [callers EXCEPT ![c].rpc = "done"]
           ELSE \E answer \in CurrentUserOutcomes :
                  LET next == IF IsAws(tvariant) THEN aws_after_load(access, refresh)
                              ELSE IF handler_after_load(access, refresh) = "validate"
                              THEN handler_after_validate(answer, refresh)
                              ELSE "authflow"
                  IN  callers' = [callers EXCEPT
                                    ![c].loaded = <<access, refresh>>,
                                    ![c].rpc = IF next = "refresh" THEN "refresh"
                                               ELSE "done"]
    /\ UNCHANGED <<tvariant, store, identity_ok, run, issued, pairs, runs>>
    /\ UNCHANGED <<predVars, wfVars, enumVars>>

\* refresh_tokens with the refresh token the call read: a token response,
\* or a failure that ends the call's refresh.
CallerRefreshes(c) ==
    /\ callers[c].rpc = "refresh"
    /\ \/ /\ \/ ~identity_ok
             \/ \E outcome \in RefreshFailures : TRUE
          /\ callers' = [callers EXCEPT ![c].rpc = "done"]
          /\ UNCHANGED <<issued, pairs>>
       \/ /\ identity_ok
          /\ \E kind \in RefreshSuccesses :
               LET n == issued + 1
                   access == ResponseAccess(kind, n)
                   refresh == ResponseRefresh(kind, n)
               IN  /\ issued' = n
                   /\ pairs' = pairs \cup {<<access, refresh>>}
                   /\ callers' = [callers EXCEPT
                                    ![c].access = access,
                                    ![c].refresh = refresh,
                                    ![c].rpc = IF access # 0 THEN "persist"
                                               ELSE "done"]
    /\ UNCHANGED <<tvariant, store, identity_ok, run, runs>>
    /\ UNCHANGED <<predVars, wfVars, enumVars>>

\* save_token_secret: both tokens in one put_secret_value.
CallerSavesTokenSecret(c) ==
    /\ callers[c].rpc = "persist"
    /\ IsAws(tvariant)
    /\ \E ok \in BOOLEAN :
         /\ store' = IF ok THEN [store EXCEPT !.access = callers[c].access,
                                              !.refresh = callers[c].refresh]
                     ELSE store
         /\ callers' = [callers EXCEPT ![c].rpc = "done",
                                       ![c].saved = IF ok THEN "True" ELSE "raised"]
    /\ UNCHANGED <<tvariant, identity_ok, run, issued, pairs, runs>>
    /\ UNCHANGED <<predVars, wfVars, enumVars>>

\* save_tokens_to_aws, first put_secret_value: the access token record.
CallerPutsAccessToken(c) ==
    /\ callers[c].rpc = "persist"
    /\ tvariant = "handler_aws"
    /\ \E ok \in BOOLEAN :
         IF ok
         THEN /\ store' = [store EXCEPT !.access = callers[c].access, !.araw = TRUE]
              /\ callers' = [callers EXCEPT ![c].rpc = "persist_refresh"]
         ELSE /\ store' = store
              /\ callers' = [callers EXCEPT ![c].rpc = "done", ![c].saved = "False"]
    /\ UNCHANGED <<tvariant, identity_ok, run, issued, pairs, runs>>
    /\ UNCHANGED <<predVars, wfVars, enumVars>>

\* save_tokens_to_aws, second put_secret_value: the refresh token record.
CallerPutsRefreshToken(c) ==
    /\ callers[c].rpc = "persist_refresh"
    /\ IF callers[c].refresh = 0
       THEN /\ store' = store
            /\ callers' = [callers EXCEPT ![c].rpc = "done", ![c].saved = "raised"]
       ELSE \E ok \in BOOLEAN :
              /\ store' = IF ok THEN [store EXCEPT !.refresh = callers[c].refresh,
                                                   !.rraw = TRUE]
                          ELSE store
              /\ callers' = [callers EXCEPT ![c].rpc = "done",
                                            ![c].saved = Bool(ok)]
    /\ UNCHANGED <<tvariant, identity_ok, run, issued, pairs, runs>>
    /\ UNCHANGED <<predVars, wfVars, enumVars>>

NextRace ==
    \/ \E c \in Callers : CallerLoads(c)
    \/ \E c \in Callers : CallerRefreshes(c)
    \/ \E c \in Callers : CallerSavesTokenSecret(c)
    \/ \E c \in Callers : CallerPutsAccessToken(c)
    \/ \E c \in Callers : CallerPutsRefreshToken(c)

SpecRace == InitRace /\ [][NextRace]_vars

-----------------------------------------------------------------------------
(* The deletion predicate called on arbitrary date strings.                 *)

PredYears == {2024, 2025}
PredMonths == {2, 3, 13}
PredDays == {1, 29, 30}
PredDateStrings ==
    {DateString(y, m, d) : y \in PredYears, m \in PredMonths, d \in PredDays}
    \cup {Unpadded(y, m, d) : y \in PredYears, m \in PredMonths, d \in PredDays}
    \cup {None}

InitPred ==
    /\ arg_em \in PredDateStrings
    /\ arg_del \in PredDateStrings
    /\ arg_today \in PredDateStrings
    /\ ret = "none"
    /\ pc_pred = "ready"
    /\ InitMatchIdle
    /\ InitWorkflowIdle
    /\ InitTokenIdle
    /\ InitEnumIdle

CallPredicate ==
    /\ pc_pred = "ready"
    /\ ret' = IF should_workspace_be_deleted_raises(arg_em, arg_del, arg_today)
              THEN "TypeError"
              ELSE Bool(should_workspace_be_deleted(arg_em, arg_del, arg_today))
    /\ pc_pred' = "returned"
    /\ UNCHANGED <<arg_em, arg_del, arg_today>>
    /\ UNCHANGED <<string_arg_a, string_arg_b, match_ret, pc_match>>
    /\ UNCHANGED <<wfVars, tokVars, enumVars>>

NextPred == CallPredicate

SpecPred == InitPred /\ [][NextPred]_vars

-----------------------------------------------------------------------------
(* is_workspaces_substring called on arbitrary strings.                     *)

MaxStringLen == 3     \* symbols of one argument string

\* The symbols the argument strings are made of: a path prefix, the literal
\* 'workspaces/', two pieces of a name and the wildcard.
MatchSymbols == {"path/to/", "workspaces/", "dev", "-project", "*"}

MatchStrings == UNION {[1..n -> MatchSymbols] : n \in 0..MaxStringLen}

InitMatch ==
    /\ string_arg_a \in MatchStrings
    /\ string_arg_b \in MatchStrings
    /\ match_ret = "none"
    /\ pc_match = "ready"
    /\ arg_em = None /\ arg_del = None /\ arg_today = None
    /\ ret = "none" /\ pc_pred = "off"
    /\ InitWorkflowIdle
    /\ InitTokenIdle
    /\ InitEnumIdle

CallMatch ==
    /\ pc_match = "ready"
    /\ match_ret' = Bool(is_workspaces_substring(string_arg_a, string_arg_b))
    /\ pc_match' = "returned"
    /\ UNCHANGED <<arg_em, arg_del, arg_today, ret, pc_pred>>
    /\ UNCHANGED <<string_arg_a, string_arg_b>>
    /\ UNCHANGED <<wfVars, tokVars, enumVars>>

NextMatch == CallMatch

SpecMatch == InitMatch /\ [][NextMatch]_vars

-----------------------------------------------------------------------------
(* The content enumerator called on arbitrary workspace contents.           *)

InitEnum ==
    /\ world \in EnumWorlds
    /\ manifest = EmptyManifest
    /\ pc_enum = "ready"
    /\ node = IdleNode /\ listing = EmptyListing /\ pc_list = "off"
    /\ InitPredIdle
    /\ InitWorkflowIdle
    /\ InitTokenIdle

CallEnumerator ==
    /\ pc_enum = "ready"
    /\ manifest' = process_workspace_contents(world)
    /\ pc_enum' = IF manifest'.raised THEN "raised" ELSE "returned"
    /\ UNCHANGED <<world, node, listing, pc_list>>
    /\ UNCHANGED <<predVars, wfVars, tokVars>>

NextEnum == CallEnumerator

SpecEnum == InitEnum /\ [][NextEnum]_vars

-----------------------------------------------------------------------------
(* A listing call of the repository on an arbitrary paged node.             *)

InitPages ==
    /\ node \in PagedNodes
    /\ listing = EmptyListing
    /\ pc_list = "ready"
    /\ world = EmptyWorld /\ manifest = EmptyManifest /\ pc_enum = "off"
    /\ InitPredIdle
    /\ InitWorkflowIdle
    /\ InitTokenIdle

\* get_workspace_children(workspace_id) / get_folder_children(folder_id)
CallListing ==
    /\ pc_list = "ready"
    /\ listing' = get_children(node, 1, EmptyListing)
    /\ pc_list' = IF listing'.raised THEN "raised" ELSE "returned"
    /\ UNCHANGED <<world, manifest, pc_enum, node>>
    /\ UNCHANGED <<predVars, wfVars, tokVars>>

NextPages == CallListing

SpecPages == InitPages /\ [][NextPages]_vars

-----------------------------------------------------------------------------
(* Properties of the deletion predicate and of the row workflow.            *)

\* Days from 0001-01-01, counted month by month and year by year.
RECURSIVE DaysBeforeMonth(_, _)
DaysBeforeMonth(y, m) ==
    IF m <= 1 THEN 0 ELSE DaysInMonth(y, m - 1) + DaysBeforeMonth(y, m - 1)

DaysBeforeYear(y) ==
    LET n == y - 1 IN 365 * n + (n \div 4) - (n \div 100) + (n \div 400)

Ordinal(s) == DaysBeforeYear(s[1]) + DaysBeforeMonth(s[1], s[2]) + s[3]

IsCalendarDate(s) == s # None /\ strptime(s) = "ok"

\* a calendar date written as zero-padded YYYY-MM-DD
IsIsoDate(s) == IsCalendarDate(s) /\ Len(s) = 3

\* today is a calendar day earlier than the calendar day d
Earlier(today, d) ==
    IsCalendarDate(today) /\ IsCalendarDate(d) /\ Ordinal(today) < Ordinal(d)

IssuedDeletion(cs) == \E k \in 1..Len(cs) : cs[k].op \in DeletionOps

\* C1: a row processed with today equal to its EM notification date, or with
\* today earlier than its deletion date, gets no delete_folder and no
\* delete_workspace call, also when the deletion date is already past.
C1_NoDeletionOnNotificationDay ==
    last.row # 0 =>
        LET r == rows[last.row]
        IN  (last.today = r.em_notification_date
                \/ Earlier(last.today, r.deletion_date))
            => ~IssuedDeletion(last.calls)

\* A row was processed on its notification day with its deletion date
\* already reached, and was left alone.
C1_Witness ==
    /\ last.row # 0
    /\ last.today = rows[last.row].em_notification_date
    /\ IsCalendarDate(rows[last.row].deletion_date)
    /\ Ordinal(rows[last.row].deletion_date) < Ordinal(last.today)
    /\ last.path = "criteria_not_met"

\* C2: should_workspace_be_deleted returns False whenever today equals the
\* EM notification date, whatever string the deletion date is.
C2_FalseOnNotificationDay ==
    (/\ pc_pred = "returned"
     /\ arg_today # None /\ arg_del # None
     /\ arg_today = arg_em)
    => ret = "False"

\* The predicate was called on the notification day with the deletion date
\* already in the past.
C2_Witness ==
    /\ pc_pred = "returned"
    /\ arg_today = arg_em
    /\ IsCalendarDate(arg_today)
    /\ IsCalendarDate(arg_del)
    /\ Ordinal(arg_del) < Ordinal(arg_today)

\* C3: on three calendar dates, each a YYYY-MM-DD string, the predicate
\* returns exactly (today >= deletion_date and today # em_notification_date),
\* the dates compared as days.
C3_PredicateValue ==
    (/\ pc_pred = "returned"
     /\ IsIsoDate(arg_em) /\ IsIsoDate(arg_del) /\ IsIsoDate(arg_today))
    => /\ ret \in {"True", "False"}
       /\ ret = "True" <=> (Ordinal(arg_today) >= Ordinal(arg_del)
                              /\ Ordinal(arg_today) # Ordinal(arg_em))

\* The predicate returned True on the deletion date itself.
C3_Witness ==
    /\ pc_pred = "returned"
    /\ IsIsoDate(arg_em) /\ IsIsoDate(arg_del)
    /\ arg_today = arg_del
    /\ arg_today # arg_em
    /\ ret = "True"

\* C4: reprocessing a row whose status is "Deleted" issues no delete_folder
\* and no delete_workspace call and increments the skipped counter.
C4_DeletedRowIsSkipped ==
    (last.row # 0 /\ last.status_before = "Deleted")
    => (~IssuedDeletion(last.calls) /\ last.skip = 1)

LookupMissPaths == {"healed", "heal_update_raised", "workspace_not_found"}

\* C5: a row with an empty status whose workspace is gone and whose
\* workspace lookup misses gets its status cell set to "Deleted" (the update
\* being accepted by the provider) and no errors entry.
C5_LookupMissHealsRow ==
    (/\ last.row # 0
     /\ last.status_before = ""
     /\ last.ws_gone
     /\ last.path \in LookupMissPaths
     /\ last.path # "heal_update_raised")
    => (rows[last.row].deletion_status = "Deleted" /\ last.err = 0)

-----------------------------------------------------------------------------
(* Properties of the permalink matching.                                    *)

\* The part of string_a from its first 'workspaces/' up to, and without, a
\* wildcard that ends the string; <<>> when there is no 'workspaces/'.
PatternBeforeWildcard(a) ==
    LET hits == {k \in 1..Len(a) : a[k] = "workspaces/"}
    IN  IF hits = {} THEN <<>>
        ELSE LET first == CHOOSE k \in hits : \A j \in hits : k <= j
                 stop == IF a[Len(a)] = "*" THEN Len(a) - 1 ELSE Len(a)
             IN  SubSeq(a, first, stop)

\* C26: is_workspaces_substring returns True exactly when string_a contains
\* 'workspaces/' and the part of string_a from there to before a trailing
\* wildcard occurs in string_b.
C26_MatchesPatternBeforeWildcard ==
    pc_match = "returned" =>
        (match_ret = "True" <=>
            /\ PatternBeforeWildcard(string_arg_a) # <<>>
            /\ IsSubstring(PatternBeforeWildcard(string_arg_a), string_arg_b))

-----------------------------------------------------------------------------
(* Properties of the token manager.                                         *)

C7_RefreshPersistedBeforeReturn ==
    (/\ IsAws(tvariant) \/ IsHandler(tvariant)
     /\ run.tpc = "returned"
     /\ run.loaded[1] = 0 /\ run.loaded[2] # 0)
    => /\ run.refresh_invoked = <<run.loaded[2]>>
       /\ run.session # 0 =>
             /\ store.access = run.access
             /\ store.refresh = run.refresh
             /\ run.session = run.access

ErrorTypes == {"token_expired", "token_revoked", "network_error", "unknown"}

\* C9: every failure of refresh_tokens (app_aws_oauth) emits exactly one
\* diagnostic record with an error_type of the four; an HTTP status other
\* than 400 gives network_error, a 400 with another error code token_expired.
C9_EveryFailureEmitsOneRecord ==
    (IsAws(tvariant) /\ run.failure # "none") =>
        /\ Len(run.diagnostics) = 1
        /\ run.diagnostics[1] \in ErrorTypes
        /\ run.failure = "http_other" => run.diagnostics[1] = "network_error"
        /\ run.failure = "http400_other" => run.diagnostics[1] = "token_expired"

\* C10: whenever no persist operation is under way, the stored access token
\* and the stored refresh token come from one token response (or are the
\* initial pair, or the store is empty).
C10_NeverStaleMixed ==
    run.tpc \in {"idle", "returned", "raised"} =>
        <<store.access, store.refresh>> \in pairs \cup {<<0, 0>>}

\* C21: one run of get_smartsheet_client writes the persisted credential at
\* most once; the store differs from what the run found only after a token
\* response that contained an access token; and the store is what the run
\* found when the stored access token was used directly or when the refresh
\* call failed and no code was exchanged afterwards.
C21_StoreWrittenOncePerRefresh ==
    run.tpc \notin {"off", "idle"} =>
        /\ run.writes <= 1
        /\ store # run.store0 => run.access # 0
        /\ (run.tpc = "returned" /\ run.refresh_invoked = <<>> /\ ~run.exchanged)
              => store = run.store0
        /\ (run.failure # "none" /\ ~run.exchanged) => store = run.store0

\* C25: validate_client returns False exactly when the current-user call
\* reported an authentication error (status 401 or 403, raised or embedded);
\* oauth_handler.get_smartsheet_client calls the refresh endpoint only after
\* such an error, and after a network or other non-authentication error it
\* calls neither the refresh endpoint nor refresh_tokens.
C25_RefreshOnlyAfterAuthError ==
    IsHandler(tvariant) =>
        /\ run.valid # "none" =>
              (run.validated = "False" <=> run.valid = "auth_error")
        /\ run.refresh_invoked # <<>> =>
              (run.valid = "auth_error" /\ run.validated = "False")
        /\ run.valid \in {"valid", "non_auth_error"} =>
              /\ run.refresh_invoked = <<>>
              /\ run.refresh_calls = <<>>
              /\ run.tpc = "returned"
              /\ run.session = run.loaded[1]

\* oauth_handler validated the stored access token, got a non-authentication
\* error, and returned the stored token without refreshing although a
\* refresh token was stored.
C25_Witness ==
    /\ IsHandler(tvariant)
    /\ run.valid = "non_auth_error"
    /\ run.validated = "True"
    /\ run.loaded[2] # 0
    /\ run.tpc = "returned"
    /\ run.refresh_calls = <<>>

\* C29: a session returned by get_smartsheet_client carries an access token,
\* and when the call obtained a token response (refresh or code exchange) the
\* session's token is the stored access token and the stored refresh token
\* is not empty.
C29_SessionMatchesStore ==
    (run.tpc = "returned" /\ run.session # 0) =>
        /\ run.session \in 1..issued
        /\ run.phase # "none" =>
              /\ run.session = store.access
              /\ store.refresh # 0

\* C30: when two interleaved calls have each refreshed and saved their
\* token response without a failed write, the store holds the access token
\* and the refresh token of one and the same response.
C30_NoMixAcrossRefreshes ==
    (\A c \in Callers : callers[c].rpc = "done" /\ callers[c].saved = "True")
    => \E c \in Callers :
          /\ store.access = callers[c].access
          /\ store.refresh = callers[c].refresh

\* The stored credential is what save_tokens wrote: the token file, or the
\* two secret records both written by save_tokens_to_aws.
WrittenBySaveTokens(st) ==
    /\ st.access # 0 /\ st.refresh # 0
    /\ tvariant = "handler_aws" => (st.araw /\ st.rraw)

\* C28: in both storage modes of oauth_handler, a load_tokens() call that
\* can read a credential written by save_tokens returns the access and
\* refresh token that were saved.
C28_SaveLoadRoundTrip ==
    (/\ IsHandler(tvariant)
     /\ run.tpc \notin {"off", "idle"}
     /\ run.readable
     /\ WrittenBySaveTokens(run.store0))
    => run.loaded = <<run.store0.access, run.store0.refresh>>

-----------------------------------------------------------------------------
(* Properties of the content enumerator and of the deletion order.          *)

\* The object is in the workspace: its chain of parents ends at the workspace.
RECURSIVE InTree(_, _)
InTree(w, i) ==
    \/ w.parent[i] = InWorkspace
    \/ (w.parent[i] \in EnumFolders /\ InTree(w, w.parent[i]))

\* Folder a is a proper ancestor of object d.
RECURSIVE IsAncestor(_, _, _)
IsAncestor(w, a, d) ==
    /\ w.parent[d] \in EnumFolders
    /\ (w.parent[d] = a \/ IsAncestor(w, a, w.parent[d]))

Count(seq, x) == Cardinality({k \in 1..Len(seq) : seq[k] = x})

Position(seq, x) == CHOOSE k \in 1..Len(seq) : seq[k] = x

\* The manifest list the permalink path segment asks for.
ListFor(segment) ==
    IF segment = "sheets" THEN "sheets"
    ELSE IF segment = "folders" THEN "folders"
    ELSE IF segment \in {"dashboards", "sights"} THEN "dashboards"
    ELSE "skipped"

Listings(m, i) ==
    Count(m.sheets, i) + Count(m.folders, i) + Count(m.dashboards, i)
        + Count(m.skipped, i)

CallBefore(cs, k, op, target) ==
    \E j \in 1..(k - 1) : cs[j] = Call(op, target)

\* A workspace deletion call of the row, and whether the workspace is gone
\* after it.
DeletedBy(cs, j) == cs[j].op = "delete_workspace" /\ ~ws_exists[cs[j].target]

Increasing(seq) == \A j, k \in 1..Len(seq) : j < k => seq[j] < seq[k]

\* C17: within a pass the rows are visited one after the other, each once,
\* whatever happened to the rows before: the row processed last is the one
\* before the loop index, every row up to it was counted as processed or as
\* an error once, some outcome exists for the next row, and the summary is
\* returned when the last row has been visited.
C17_EveryRowVisitedOnceInOrder ==
    /\ pc = "rows" =>
          /\ idx \in 1..(Len(rows) + 1)
          /\ last.row = idx - 1
          /\ Increasing(summary.errors)
          /\ variant = "service" => summary.processed_rows = idx - 1
          /\ variant = "app" =>
                summary.processed_rows + Len(summary.errors) = idx - 1
          /\ (idx <= Len(rows) /\ variant = "service") =>
                ServiceRowResults(rows[idx], todays_date, ws_exists) # {}
          /\ (idx <= Len(rows) /\ variant = "app") =>
                \A t \in get_pacific_today_date :
                    AppRowResults(rows[idx], t, ws_exists) # {}
    /\ pc = "done" =>
          /\ last.row = Len(rows)
          /\ idx = Len(rows) + 1
          /\ Increasing(summary.errors)
          /\ variant = "service" => summary.processed_rows = Len(rows)
          /\ variant = "app" =>
                summary.processed_rows + Len(summary.errors) = Len(rows)

\* A pass whose first row failed returned its summary after the last row.
C17_Witness ==
    /\ pc = "done"
    /\ Len(rows) >= 2
    /\ Len(summary.errors) >= 1
    /\ summary.errors[1] = 0
    /\ last.row = Len(rows)

\* The paths of a row that end before the deletion predicate is called.
BeforePredicatePaths ==
    {"none", "missing_folder_url", "already_deleted", "not_in_csv",
     "get_workspace_raised", "healed", "heal_update_raised", "missing_dates",
     "key_error"}

\* C24: two consecutive rows of one pass for which the deletion predicate
\* was called were evaluated against the same value of today, whatever the
\* calendar did between them.
C24_OneTodayPerPass ==
    [][(/\ pc = "rows" /\ pc' = "rows"
        /\ last.row # 0
        /\ last'.row = last.row + 1
        /\ last.path \notin BeforePredicatePaths
        /\ last'.path \notin BeforePredicatePaths)
       => last'.today = last.today]_vars

\* The paths of a row on which a provider call failed: the lookup, the
\* enumeration, a folder deletion, the workspace deletion or the status
\* update.
ProviderFailurePaths ==
    {"get_workspace_raised", "list_workspaces_raised", "enumeration_raised",
     "delete_folder_raised", "delete_returned_false", "delete_raised",
     "deleted_update_raised", "deleted_update_failed", "heal_update_raised"}

\* C18: a row during which a provider call failed adds exactly one errors
\* entry with the row's index to the summary, raises skipped by exactly one
\* and is not counted in successful_deletions.
C18_ProviderFailureRecordedOnce ==
    (last.row # 0 /\ last.path \in ProviderFailurePaths) =>
        /\ last.err = 1
        /\ summary.errors # <<>>
        /\ summary.errors[Len(summary.errors)] = last.row - 1
        /\ last.skip = 1
        /\ last.succ = 0

\* Some row of the running pass was processed, or a call was issued for one.
RowLevelWork ==
    \/ last # NoRow
    \/ summary # EmptySummary
    \/ idx # 1

Arrived(r, today) ==
    /\ today # None
    /\ IsIsoDate(r.deletion_date)
    /\ IsIsoDate(r.em_notification_date)
    /\ Ordinal(r.deletion_date) <= Ordinal(today)
    /\ r.em_notification_date # today

\* C20: whatever earlier passes did and wherever they were killed, a row that
\* was not marked, whose URL is the permalink of a workspace, and that a pass
\* has processed without a failing provider call on a day on which its
\* deletion date had arrived and that is not its notification day, has its
\* workspace deleted and its status "Deleted".
C20_ArrivedRowEndsDeleted ==
    (/\ pc \in {"rows", "done"}
     /\ last.row # 0
     /\ last.status_before = ""
     /\ last.path \notin ProviderFailurePaths
     /\ \E w \in Workspaces : Permalink(w) = rows[last.row].folder_url
     /\ Arrived(rows[last.row], last.today))
    => /\ rows[last.row].deletion_status = "Deleted"
       /\ \A w \in Workspaces :
             Permalink(w) = rows[last.row].folder_url => ~ws_exists[w]

\* The children of the pages 1..n of a node, page after page.
RECURSIVE Concatenation(_, _)
Concatenation(pages, n) ==
    IF n = 0 THEN <<>>
    ELSE Concatenation(pages, n - 1) \o pages[n].sheets \o pages[n].folders
             \o pages[n].reports \o pages[n].sights

\* The number of pages the responses announce: total_pages, 1 without it.
Announced(n) == IF n.has_total_pages THEN Len(n.pages) ELSE 1

\* C22: a listing call that returns has requested the pages 1 to total_pages
\* of the node, each once and in increasing order and none after the last,
\* and returns the children of these pages concatenated; without a
\* total_pages field only page 1 is requested.  A call whose request of a
\* page fails has requested the pages up to that one, in order.
C22_AllPagesOnceInOrder ==
    /\ pc_list = "returned" =>
          /\ listing.requests = [p \in 1..Announced(node) |-> p]
          /\ listing.all_children = Concatenation(node.pages, Announced(node))
          /\ ~node.has_total_pages => listing.requests = <<1>>
    /\ pc_list = "raised" =>
          listing.requests = [p \in 1..node.fail |-> p]

\* A node of three pages, all announced, was listed to the end.
C22_Witness ==
    /\ pc_list = "returned"
    /\ node.has_total_pages
    /\ Len(node.pages) = 3
    /\ listing.requests = <<1, 2, 3>>
    /\ Len(listing.all_children) >= 4

\* How many folders of the workspace the object is nested in.
RECURSIVE Nesting(_, _)
Nesting(w, i) ==
    IF w.parent[i] \in EnumFolders THEN 1 + Nesting(w, w.parent[i]) ELSE 0

\* C23: over a finite acyclic folder hierarchy and with no failing provider
\* call, process_workspace_contents returns, having made one
\* get_folder_children call for every folder of the workspace and no other,
\* and having recursed into no more folders at a time than the deepest
\* folder of the workspace is nested in.
C23_TerminatesOneCallPerFolder ==
    (pc_enum # "ready" /\ world.fail = NotThere) =>
        /\ pc_enum = "returned"
        /\ Len(manifest.fetched) =
              Cardinality({f \in EnumFolders : InTree(world, f)})
        /\ \A f \in EnumFolders :
              InTree(world, f) => \E k \in 1..Len(manifest.fetched) :
                                      manifest.fetched[k] = f
        /\ \A f \in EnumFolders :
              InTree(world, f) => manifest.depth >= Nesting(world, f) + 1
        /\ manifest.depth > 0 =>
              \E f \in EnumFolders :
                  InTree(world, f) /\ manifest.depth = Nesting(world, f) + 1
        /\ manifest.level = 0

\* C27: when process_deletion_workflow has returned its summary, every row
\* of the sheet was counted in exactly one of successful_deletions and
\* skipped, processed_rows does not exceed the number of rows, and there are
\* no more errors entries than skipped rows.
C27_SummaryCountsEveryRowOnce ==
    (variant = "service" /\ pc = "done") =>
        /\ summary.successful_deletions + summary.skipped = Len(rows)
        /\ summary.processed_rows <= Len(rows)
        /\ Len(summary.errors) <= summary.skipped

\* C13: when the enumeration returns, every object of the workspace is in
\* exactly one manifest list, the one its permalink path segment asks for,
\* anything that is no sheet, folder or dashboard being in skipped.
C13_EveryChildInOneList ==
    pc_enum = "returned" =>
        \A i \in EnumItems :
            InTree(world, i) =>
                /\ Listings(manifest, i) = 1
                /\ Count(manifest[ListFor(world.segment[i])], i) = 1

\* The workspace holds only direct children that are sheets, folders and
\* dashboards, and no provider call fails.
FlatWorkspace(w) ==
    /\ w.fail = NotThere
    /\ \A i \in EnumItems :
          /\ w.parent[i] \in {NotThere, InWorkspace}
          /\ i \in EnumReports => w.parent[i] = NotThere

\* C14: for a workspace whose direct children are sheets, empty folders and
\* dashboards only, process_workspace_contents returns a manifest with as
\* many sheets, folders and dashboards as there are children of each type
\* and an empty skipped list.
C14_FlatWorkspaceManifest ==
    (pc_enum # "ready" /\ FlatWorkspace(world)) =>
        /\ pc_enum = "returned"
        /\ Len(manifest.sheets) =
              Cardinality({i \in EnumSheets : world.parent[i] = InWorkspace})
        /\ Len(manifest.folders) =
              Cardinality({i \in EnumFolders : world.parent[i] = InWorkspace})
        /\ Len(manifest.dashboards) =
              Cardinality({i \in EnumSights : world.parent[i] = InWorkspace})
        /\ manifest.skipped = <<>>

\* C15: when no provider call fails, process_workspace_contents requests the
\* children of every folder of the workspace exactly once, lists every such
\* folder exactly once in manifest.folders, a folder before the folders
\* below it, and lists every sheet of any depth in manifest.sheets.
C15_WholeTreeTraversed ==
    (pc_enum # "ready" /\ world.fail = NotThere) =>
        /\ pc_enum = "returned"
        /\ \A f \in EnumFolders :
              /\ Count(manifest.fetched, f) = (IF InTree(world, f) THEN 1 ELSE 0)
              /\ Count(manifest.folders, f) = (IF InTree(world, f) THEN 1 ELSE 0)
        /\ \A a, d \in EnumFolders :
              (InTree(world, d) /\ IsAncestor(world, a, d))
              => Position(manifest.folders, a) < Position(manifest.folders, d)
        /\ \A sh \in EnumSheets :
              Count(manifest.sheets, sh) = (IF InTree(world, sh) THEN 1 ELSE 0)

\* C16: when fetching the children of one folder of the workspace fails, the
\* enumeration still returns a manifest, and the manifest lists every sheet
\* and folder of the workspace that is not below the failing folder.
C16_OnlySubtreeAbandoned ==
    (/\ pc_enum # "ready"
     /\ world.returns = "result"
     /\ world.fail \in EnumFolders
     /\ InTree(world, world.fail))
    => /\ pc_enum = "returned"
       /\ \A i \in EnumSheets \cup EnumFolders :
             (InTree(world, i) /\ ~IsAncestor(world, world.fail, i))
             => Listings(manifest, i) = 1

====
